---- MODULE Spec2Model ----
(***************************************************************************)
(* AlertService (app/services/alert_service.py): a per-user alert store    *)
(* kept in memory as a dict user_id -> list of alert dicts, guarded by one *)
(* re-entrant lock and persisted to one JSON file by write-temp + rename.  *)
(*                                                                         *)
(* Callers are threads.  Each call is split into the steps at which other  *)
(* threads, an I/O failure or the end of the process can interleave.       *)
(***************************************************************************)
EXTENDS Integers, Sequences, FiniteSets, TLC

VARIABLES
    maxPerUser, \* self._max_per_user, fixed when the store is built
    alerts,     \* self._alerts: user_id -> sequence of alert dicts
    lock,       \* self._lock: the thread holding it, or NoThread
    pc,         \* position of every caller thread
    call,       \* arguments and locals of every thread's current call
    ret,        \* the value or exception the call that just ended gave its caller
    file,       \* the durable file self._data_file
    tmp,        \* the temporary file of every thread's _save_alerts
    nextId,     \* source of uuid4 values: ids below it were already issued
    clock,      \* datetime.now
    returned,   \* history: ids of the alerts create returned, in order
    ioFailed,   \* history: a persistence step failed since the store was built
    race,       \* history: two creates pending for one owner with one free slot
    ev          \* the locals of the check_triggered_alerts call in progress

vars == <<maxPerUser, alerts, lock, pc, call, ret, file, tmp, nextId, clock, returned,
          ioFailed, race, ev>>

----------------------------------------------------------------------------
(* Bounds and small input sets *)

\* concurrent callers: two threads, a quota of MaxPerUser, NumIds uuids
MaxPerUser == 1
NumIds == 2
Threads == {"t1", "t2"}

\* one caller at a time: a quota of SeqMaxPerUser, SeqNumIds uuids
SeqMaxPerUser == 3
SeqNumIds == 3
SeqThreads == {"t1"}

\* evaluation: stores of up to EvalMaxAlerts alerts
EvalMaxAlerts == 2

Owners == {"A", "B"}
NoThread == "none"

----------------------------------------------------------------------------
(* Python values, JSON values and the Alert entity *)

PyNone == [ty |-> "none", v |-> ""]
PyStr(s) == [ty |-> "str", v |-> s]
PyFloat(s) == [ty |-> "float", v |-> s]
PyEnum(s) == [ty |-> "enum", v |-> s]

\* a key the dict does not have: d[k] raises KeyError
PyAbsent == [ty |-> "absent", v |-> ""]

\* alert_data as the callers pass it; a key that is absent reads as None
\* through alert_data.get
PriceThresholdData ==
    [alert_type |-> PyStr("price_threshold"), ticker |-> PyStr("AAPL"),
     target_price |-> PyFloat("200.0"), price_direction |-> PyEnum("above"),
     target_signal |-> PyNone, percentage_threshold |-> PyNone,
     baseline_value |-> PyNone]

Payloads == {PriceThresholdData}

\* the payloads of the other kinds, for the stores check_triggered_alerts
\* runs over
PriceBelowData == [PriceThresholdData EXCEPT !.price_direction = PyEnum("below")]

SignalChangeData ==
    [alert_type |-> PyStr("signal_change"), ticker |-> PyStr("TSLA"),
     target_price |-> PyNone, price_direction |-> PyNone,
     target_signal |-> PyEnum("BUY"), percentage_threshold |-> PyNone,
     baseline_value |-> PyNone]

PortfolioValueData ==
    [alert_type |-> PyStr("portfolio_value"), ticker |-> PyNone,
     target_price |-> PyNone, price_direction |-> PyNone,
     target_signal |-> PyNone, percentage_threshold |-> PyFloat("5.0"),
     baseline_value |-> PyFloat("1000.0")]

PortfolioWideData ==
    [PortfolioValueData EXCEPT !.percentage_threshold = PyFloat("29.0")]

\* PortfolioValueCreate has no baseline_value field: the key is absent
PortfolioNoBaselineData ==
    [PortfolioValueData EXCEPT !.baseline_value = PyNone]

EvalPayloads ==
    {PriceThresholdData, PriceBelowData, SignalChangeData, PortfolioValueData,
     PortfolioWideData, PortfolioNoBaselineData}

\* alert_data no request schema accepts: an alert_type that is no member
\* of AlertType, and no alert_type key at all
UnknownTypeData ==
    [PriceThresholdData EXCEPT !.alert_type = PyStr("volume_spike")]

NoTypeData == [PriceThresholdData EXCEPT !.alert_type = PyAbsent]

RawPayloads == {UnknownTypeData, NoTypeData}

NoData == [alert_type |-> PyNone, ticker |-> PyNone, target_price |-> PyNone,
           price_direction |-> PyNone, target_signal |-> PyNone,
           percentage_threshold |-> PyNone, baseline_value |-> PyNone]

\* variant: an enum that is no str subclass goes through default=str
JsonOfValue_Repr(x) ==
    CASE x.ty = "none" -> [ty |-> "null", v |-> ""]
      [] x.ty = "str" -> [ty |-> "string", v |-> x.v]
      [] x.ty = "enum" -> [ty |-> "string", v |-> "PriceDirection.ABOVE"]
      [] x.ty = "float" -> [ty |-> "number", v |-> x.v]

\* json.dump of one Python value: a str subclass (the enums) is written as
\* its string, a float as a number, None as null
JsonOfValue(x) ==
    CASE x.ty = "none" -> [ty |-> "null", v |-> ""]
      [] x.ty = "str" -> [ty |-> "string", v |-> x.v]
      [] x.ty = "enum" -> [ty |-> "string", v |-> x.v]
      [] x.ty = "float" -> [ty |-> "number", v |-> x.v]

\* json.loads of one JSON value
ValueOfJson(j) ==
    CASE j.ty = "null" -> PyNone
      [] j.ty = "string" -> PyStr(j.v)
      [] j.ty = "number" -> PyFloat(j.v)

ValueKeys == {"alert_type", "ticker", "target_price", "price_direction",
              "target_signal", "percentage_threshold", "baseline_value"}
EnumKeys == {"alert_type", "price_direction", "target_signal"}
FloatKeys == {"target_price", "percentage_threshold", "baseline_value"}

\* the member values of the enum behind an enum field of Alert
EnumValues(k) ==
    CASE k = "alert_type" ->
             {"price_threshold", "signal_change", "portfolio_value"}
      [] k = "price_direction" -> {"above", "below"}
      [] k = "target_signal" -> {"BUY", "SELL", "HOLD"}

\* the fields of Alert without a default among the payload fields
RequiredKeys == {"alert_type"}

\* the strings float() accepts, among the strings of this model
NumericStrings == {"200.0", "5.0", "29.0", "1000.0"}

\* the number a float of this model holds
FloatOf(x) ==
    CASE x.v = "200.0" -> 200
      [] x.v = "5.0" -> 5
      [] x.v = "29.0" -> 29
      [] x.v = "1000.0" -> 1000

\* a field value pydantic rejects: the constructor raises ValidationError
Invalid == [ty |-> "invalid", v |-> ""]

\* variant: strict mode, no conversion from str to an enum or a float
CoerceField_Strict(k, x) ==
    IF x.ty = "none" THEN (IF k \in RequiredKeys THEN Invalid ELSE PyNone)
    ELSE IF k \in EnumKeys
         THEN (IF x.ty = "enum" /\ x.v \in EnumValues(k) THEN x ELSE Invalid)
    ELSE IF k \in FloatKeys
         THEN (IF x.ty = "float" THEN x ELSE Invalid)
    ELSE IF x.ty = "str" THEN x ELSE Invalid

\* pydantic's validation of one field of Alert: None is accepted where the
\* field has a default; an enum field accepts the enum or the string value
\* of a member and holds the enum; a float field accepts a float or a
\* numeric string and holds the float; a str field accepts a str
CoerceField(k, x) ==
    IF x.ty = "none" THEN (IF k \in RequiredKeys THEN Invalid ELSE PyNone)
    ELSE IF k \in EnumKeys
         THEN (IF x.ty \in {"str", "enum"} /\ x.v \in EnumValues(k)
               THEN PyEnum(x.v) ELSE Invalid)
    ELSE IF k \in FloatKeys
         THEN (IF x.ty = "float" \/ (x.ty = "str" /\ x.v \in NumericStrings)
               THEN PyFloat(x.v) ELSE Invalid)
    ELSE IF x.ty \in {"str", "enum"} THEN PyStr(x.v) ELSE Invalid

\* Alert(**data); created_at, an ISO string in the dict, is parsed to a
\* datetime
_to_alert(data) ==
    [k \in DOMAIN data |->
        IF k \in ValueKeys THEN CoerceField(k, data[k])
        ELSE IF k = "created_at" THEN [ty |-> "datetime", at |-> data[k]]
        ELSE data[k]]

\* the Alert constructor returns: no field is rejected
AlertValidates(data) ==
    \A k \in ValueKeys \cap DOMAIN data : CoerceField(k, data[k]) # Invalid

----------------------------------------------------------------------------
(* The durable file *)

EmptyMap == [u \in {} |-> <<>>]

\* json.dump(self._alerts): the whole mapping, every dict with all its keys
JsonOfDict(d) ==
    [k \in DOMAIN d |-> IF k \in ValueKeys THEN JsonOfValue(d[k]) ELSE d[k]]

JsonDump(m) ==
    [u \in DOMAIN m |-> [i \in 1..Len(m[u]) |-> JsonOfDict(m[u][i])]]

\* json.loads of a complete document
DictOfJson(j) ==
    [k \in DOMAIN j |-> IF k \in ValueKeys THEN ValueOfJson(j[k]) ELSE j[k]]

JsonLoads(doc) ==
    [u \in DOMAIN doc |-> [i \in 1..Len(doc[u]) |-> DictOfJson(doc[u][i])]]

NoFile == [exists |-> FALSE, kind |-> "none", doc |-> EmptyMap]
NoTmp == [state |-> "none", doc |-> EmptyMap]

\* what a data file the store did not write can hold: text json.loads
\* rejects, bytes that are not UTF-8, a JSON value that is no object (a
\* list, a number, null), and an object with a value that has no len (as
\* in {"A": 5})
ForeignKinds == {"truncated", "not_utf8", "json_other", "json_object_unsized"}

\* _load_alerts lets an exception escape: read_text raises
\* UnicodeDecodeError, or the sum of len(v) in the log call raises TypeError;
\* neither is a json.JSONDecodeError or an OSError
LoadRaises(f) == f.exists /\ f.kind \in {"not_utf8", "json_object_unsized"}

\* the exception that escapes _load_alerts and __init__
LoadError(f) ==
    [kind |-> "BootError",
     error |-> IF f.kind = "not_utf8" THEN "UnicodeDecodeError"
               ELSE "TypeError"]

\* _load_alerts: a missing file, a file json.loads rejects and a JSON value
\* that is no dict all give {}; a dict is taken as the mapping
_load_alerts(f) ==
    IF ~f.exists THEN EmptyMap
    ELSE IF f.kind = "json" THEN JsonLoads(f.doc)
    ELSE EmptyMap

----------------------------------------------------------------------------
(* Reads of the in-memory mapping *)

\* variant: the lookup ignores user_id
_get_user_alerts_AnyKey(m, user_id) ==
    IF DOMAIN m # {} THEN m[CHOOSE u \in DOMAIN m : TRUE] ELSE <<>>

\* self._alerts.get(user_id, [])
_get_user_alerts(m, user_id) ==
    IF user_id \in DOMAIN m THEN m[user_id] ELSE <<>>

\* variant: the newest alert first
ListOf_Reversed(m, user_id) ==
    LET raw == _get_user_alerts(m, user_id)
    IN  [i \in 1..Len(raw) |-> _to_alert(raw[Len(raw) + 1 - i])]

\* list_alerts, the part under the lock
ListOf(m, user_id) ==
    LET raw == _get_user_alerts(m, user_id)
    IN  [i \in 1..Len(raw) |-> _to_alert(raw[i])]

\* variant: the filter stops at the matching alert
RECURSIVE Filtered_Cut(_, _)
Filtered_Cut(user_alerts, alert_id) ==
    IF user_alerts = <<>> THEN <<>>
    ELSE IF Head(user_alerts).id # alert_id
         THEN <<Head(user_alerts)>> \o Filtered_Cut(Tail(user_alerts), alert_id)
         ELSE <<>>

\* [a for a in user_alerts if a["id"] != alert_id]
RECURSIVE Filtered(_, _)
Filtered(user_alerts, alert_id) ==
    IF user_alerts = <<>> THEN <<>>
    ELSE IF Head(user_alerts).id # alert_id
         THEN <<Head(user_alerts)>> \o Filtered(Tail(user_alerts), alert_id)
         ELSE Filtered(Tail(user_alerts), alert_id)

\* variant: "if not filtered" instead of the length comparison
NothingRemoved_Empty(filtered, original_len) == Len(filtered) = 0

\* len(filtered) == original_len: delete_alert raises AlertNotFoundError
NothingRemoved(filtered, original_len) == Len(filtered) = original_len

\* self._alerts[user_id] = value
SetUser(m, user_id, value) ==
    [u \in DOMAIN m \cup {user_id} |-> IF u = user_id THEN value ELSE m[u]]

\* variant: > instead of >=
AtLimit_Off(count) == count > maxPerUser

\* the quota test of create_alert
AtLimit(count) == count >= maxPerUser

\* variant: reports the count the create would have reached
AlertLimitExceededError_Next(count) ==
    [kind |-> "QuotaExceeded", current_count |-> count + 1,
     max_allowed |-> maxPerUser]

\* AlertLimitExceededError(current_count=len(user_alerts), max_allowed=...)
AlertLimitExceededError(count) ==
    [kind |-> "QuotaExceeded", current_count |-> count,
     max_allowed |-> maxPerUser]

\* the alert dict create_alert builds
AlertDict(id, user_id, data, now) ==
    [id |-> id, user_id |-> user_id, alert_type |-> data.alert_type,
     ticker |-> data.ticker, target_price |-> data.target_price,
     price_direction |-> data.price_direction,
     target_signal |-> data.target_signal,
     percentage_threshold |-> data.percentage_threshold,
     baseline_value |-> data.baseline_value, created_at |-> now]

NoDict == AlertDict(0, "", NoData, 0)
NoCall == [op |-> "none", user_id |-> "", data |-> NoData, alert_id |-> 0,
           alert_dict |-> NoDict]
NoResult == [kind |-> "none"]
NoRace == [threads |-> {}, outcomes |-> <<>>]

----------------------------------------------------------------------------
(* The collaborators of the evaluation: what a call of them can give *)

\* the last Close of the series fetch_historical_data(ticker) returns, when
\* it returns
Closes(ticker) ==
    CASE ticker = "AAPL" -> {195, 200, 205}
      [] ticker = "TSLA" -> {200}
      [] ticker = "X" -> {1050, 1290}
      [] ticker = "Y" -> {10}
      [] ticker = "Z" -> {20}
      [] ticker = "W" -> {40}

\* fetch_historical_data raised
FetchFailed == [ok |-> FALSE, close |-> 0]

\* one call of fetch_historical_data(ticker)
FetchOutcomes(ticker) ==
    {FetchFailed} \cup {[ok |-> TRUE, close |-> p] : p \in Closes(ticker)}

\* fetch, calculate, get_current_price and generate in a row: one of them
\* raises, or generate gives an action
SignalOutcomes ==
    {[ok |-> FALSE, stage |-> g, signal |-> ""] :
        g \in {"fetch", "calculate", "generate"}}
    \cup {[ok |-> TRUE, stage |-> "", signal |-> g] :
            g \in {"BUY", "SELL", "HOLD"}}

NoSignal == [ok |-> FALSE, stage |-> "", signal |-> ""]

\* the portfolio_holdings argument: left out (None) or a list of tickers
HoldingsChoices ==
    {[given |-> FALSE, tickers |-> <<>>], [given |-> TRUE, tickers |-> <<>>],
     [given |-> TRUE, tickers |-> <<"X">>],
     [given |-> TRUE, tickers |-> <<"X", "Y">>],
     [given |-> TRUE, tickers |-> <<"Y", "W", "Z">>]}

NoHoldings == [given |-> FALSE, tickers |-> <<>>]

\* holdings = portfolio_holdings or []
HoldingsOf(portfolio_holdings) ==
    IF portfolio_holdings.given THEN portfolio_holdings.tickers ELSE <<>>

----------------------------------------------------------------------------
(* The evaluation strategies.  evaluated_at, a timestamp no verdict depends *)
(* on, is left out of the results.                                          *)

\* _alert_to_summary
_alert_to_summary(alert) ==
    [id |-> alert.id, alert_type |-> alert.alert_type,
     ticker |-> alert.ticker, target_price |-> alert.target_price,
     price_direction |-> alert.price_direction,
     target_signal |-> alert.target_signal,
     percentage_threshold |-> alert.percentage_threshold,
     baseline_value |-> alert.baseline_value]

\* f"{x:.2f}"
Fmt2(x) == [ty |-> "str", fmt |-> ".2f", of |-> x]

TriggeredAlertResult(summary, triggered, current_value, details, error) ==
    [alert |-> summary, triggered |-> triggered,
     current_value |-> current_value, details |-> details, error |-> error]

\* an exception leaves the strategy instead of a result
Raised == [raised |-> TRUE]

\* variant: evaluate_price_threshold without its except clause
PriceFailure_Raise(alert) == Raised

\* the except clause of evaluate_price_threshold
PriceFailure(alert) ==
    TriggeredAlertResult(_alert_to_summary(alert), FALSE, PyNone, PyNone,
                         PyStr("Failed to fetch data"))

\* variant: the target itself counts as above
IsAbove_OrEqual(current_price, target_price) == current_price >= target_price

\* current_price > alert.target_price
IsAbove(current_price, target_price) == current_price > target_price

\* current_price < alert.target_price
IsBelow(current_price, target_price) == current_price < target_price

\* evaluate_price_threshold, q the outcome of its fetch; an alert without
\* direction or target raises inside the try block
evaluate_price_threshold(alert, q) ==
    IF \/ ~q.ok
       \/ alert.price_direction.ty # "enum"
       \/ alert.target_price.ty # "float"
    THEN PriceFailure(alert)
    ELSE LET current_price == q.close
             target_price == FloatOf(alert.target_price)
             triggered == IF alert.price_direction.v = "above"
                          THEN IsAbove(current_price, target_price)
                          ELSE IsBelow(current_price, target_price)
         IN  TriggeredAlertResult(
                 _alert_to_summary(alert), triggered, Fmt2(current_price),
                 PyStr(IF (alert.price_direction.v = "above") = triggered
                       THEN "above" ELSE "below"),
                 PyNone)

\* variant: the except clause reports a value next to the error
SignalFailure_WithValue(alert) ==
    TriggeredAlertResult(_alert_to_summary(alert), FALSE, PyStr("HOLD"),
                         PyNone, PyStr("Failed to fetch data"))

\* the except clause of evaluate_signal_change
SignalFailure(alert) ==
    TriggeredAlertResult(_alert_to_summary(alert), FALSE, PyNone, PyNone,
                         PyStr("Failed to fetch data"))

\* evaluate_signal_change, o the outcome of its collaborator calls
evaluate_signal_change(alert, o) ==
    IF ~o.ok \/ alert.target_signal.ty # "enum"
    THEN SignalFailure(alert)
    ELSE TriggeredAlertResult(
             _alert_to_summary(alert), o.signal = alert.target_signal.v,
             PyStr(o.signal), PyStr("current signal"), PyNone)

\* variant: the first fetch that raises ends the loop
RECURSIVE SumCloses_StopAtFailure(_)
SumCloses_StopAtFailure(quotes) ==
    IF quotes = <<>> \/ ~Head(quotes).ok THEN 0
    ELSE Head(quotes).close + SumCloses_StopAtFailure(Tail(quotes))

\* total_value after the loop over the holdings: a fetch that raised is
\* skipped
RECURSIVE SumCloses(_)
SumCloses(quotes) ==
    IF quotes = <<>> THEN 0
    ELSE (IF Head(quotes).ok THEN Head(quotes).close ELSE 0)
         + SumCloses(Tail(quotes))

Abs(x) == IF x < 0 THEN 0 - x ELSE x

\* the double abs((total_value - baseline) / baseline) * 100 against the
\* exact quotient, for the totals and baselines of this model: -1 when it
\* is below (0.29 * 100 is 28.999999999999996), 0 when it is exact
FloatErr(total_value, baseline) ==
    IF <<total_value, baseline>> \in {<<1290, 1000>>} THEN -1 ELSE 0

\* pct_change as a fraction and the direction of its rounding
PctChange(total_value, baseline) ==
    IF baseline > 0
    THEN [num |-> Abs(total_value - baseline) * 100, den |-> baseline,
          err |-> FloatErr(total_value, baseline)]
    ELSE [num |-> 0, den |-> 1, err |-> 0]

\* pct_change >= alert.percentage_threshold
AtLeast(pct_change, threshold) ==
    \/ pct_change.num > threshold * pct_change.den
    \/ /\ pct_change.num = threshold * pct_change.den
       /\ pct_change.err >= 0

\* the outer except clause of evaluate_portfolio_value
PortfolioFailure(alert) ==
    TriggeredAlertResult(_alert_to_summary(alert), FALSE, PyNone, PyNone,
                         PyStr("Failed to evaluate portfolio value"))

\* evaluate_portfolio_value, quotes the outcomes of the fetches of the
\* holdings in order; an alert without threshold raises at the comparison
evaluate_portfolio_value(alert, holdings, quotes) ==
    IF holdings = <<>>
    THEN TriggeredAlertResult(_alert_to_summary(alert), FALSE, Fmt2(0),
                              PyStr("Portfolio has no holdings"), PyNone)
    ELSE IF alert.percentage_threshold.ty # "float"
    THEN PortfolioFailure(alert)
    ELSE LET total_value == SumCloses(quotes)
             baseline == IF alert.baseline_value.ty = "float"
                         THEN FloatOf(alert.baseline_value) ELSE 0
             pct_change == PctChange(total_value, baseline)
             triggered == AtLeast(pct_change,
                                  FloatOf(alert.percentage_threshold))
         IN  TriggeredAlertResult(
                 _alert_to_summary(alert), triggered, Fmt2(total_value),
                 PyStr(IF triggered THEN "exceeds" ELSE "below"), PyNone)

\* what the collaborators give during the evaluation of one alert: the
\* fetches in order, and the signal
OutcomesFor(alert, holdings) ==
    IF alert.alert_type = PyEnum("price_threshold")
    THEN {[quotes |-> <<q>>, signal |-> NoSignal] :
             q \in IF alert.ticker.ty = "str"
                   THEN FetchOutcomes(alert.ticker.v) ELSE {FetchFailed}}
    ELSE IF alert.alert_type = PyEnum("signal_change")
    THEN {[quotes |-> <<>>, signal |-> o] : o \in SignalOutcomes}
    ELSE IF alert.alert_type = PyEnum("portfolio_value")
    THEN {[quotes |-> qs, signal |-> NoSignal] :
             qs \in {f \in [1..Len(holdings) ->
                              UNION {FetchOutcomes(holdings[i]) :
                                        i \in 1..Len(holdings)}] :
                        \A i \in 1..Len(holdings) :
                            f[i] \in FetchOutcomes(holdings[i])}}
    ELSE {[quotes |-> <<>>, signal |-> NoSignal]}

\* the dispatch on alert.alert_type in the loop of check_triggered_alerts
ResultOf(alert, holdings, o) ==
    IF alert.alert_type = PyEnum("price_threshold")
    THEN evaluate_price_threshold(alert, o.quotes[1])
    ELSE IF alert.alert_type = PyEnum("signal_change")
    THEN evaluate_signal_change(alert, o.signal)
    ELSE IF alert.alert_type = PyEnum("portfolio_value")
    THEN evaluate_portfolio_value(alert, holdings, o.quotes)
    ELSE TriggeredAlertResult(_alert_to_summary(alert), FALSE, PyNone,
                              PyNone, PyStr("Unknown alert type"))

\* variant: a result with an error is left out
Appended_SkipErrors(results, result) ==
    IF result.error # PyNone THEN results ELSE Append(results, result)

\* results.append(result)
Appended(results, result) == Append(results, result)

\* sum(1 for r in results if r.triggered)
TriggeredCount(results) ==
    Cardinality({i \in 1..Len(results) : results[i].triggered})

\* sum(1 for r in results if r.error is not None)
ErrorCount(results) ==
    Cardinality({i \in 1..Len(results) : results[i].error # PyNone})

\* variant: the errors are not taken off
NotTriggeredCount_NoErrors(total, triggered_count, error_count) ==
    total - triggered_count

\* len(results) - triggered_count - error_count
NotTriggeredCount(total, triggered_count, error_count) ==
    total - triggered_count - error_count

TriggeredAlertsSummary(results) ==
    [total_alerts |-> Len(results),
     triggered_count |-> TriggeredCount(results),
     not_triggered_count |-> NotTriggeredCount(Len(results),
                                               TriggeredCount(results),
                                               ErrorCount(results)),
     error_count |-> ErrorCount(results)]

\* no check_triggered_alerts call in progress
NoEval == [state |-> "idle", user_id |-> "", portfolio_holdings |-> NoHoldings,
           alerts |-> <<>>, results |-> <<>>, outcomes |-> <<>>]

----------------------------------------------------------------------------
(* Initial state: AlertService(data_file, max_per_user) over a data file   *)
(* that does not exist yet                                                 *)

InitWith(max_per_user) ==
    /\ maxPerUser = max_per_user
    /\ alerts = _load_alerts(NoFile)
    /\ lock = NoThread
    /\ pc = [t \in Threads |-> "idle"]
    /\ call = [t \in Threads |-> NoCall]
    /\ ret = NoResult
    /\ file = NoFile
    /\ tmp = [t \in Threads |-> NoTmp]
    /\ nextId = 1
    /\ clock = 1
    /\ returned = <<>>
    /\ ioFailed = FALSE
    /\ race = NoRace
    /\ ev = NoEval

Init == InitWith(MaxPerUser)
InitSeq == InitWith(SeqMaxPerUser)

----------------------------------------------------------------------------
(* The lock, and the end of a call *)

\* variant: no lock at all
CanAcquire_NoLock(t) == TRUE

\* variant: the with block ends before _save_alerts, so the lock can be
\* taken while its holder is persisting
CanAcquire_WhileSaving(t) ==
    IF lock \in {NoThread, t} THEN TRUE
    ELSE pc[lock] \in {"s_mkstemp", "s_write", "s_replace", "s_done"}

\* threading.RLock: free, or already held by the caller
CanAcquire(t) == lock = NoThread \/ lock = t

\* leaving the with block: the holder releases
Released(t) == IF lock = t THEN NoThread ELSE lock

\* a call ends: its value or exception reaches the caller, the with block
\* is left
Finish(t, res) ==
    /\ pc' = [pc EXCEPT ![t] = "idle"]
    /\ call' = [call EXCEPT ![t] = NoCall]
    /\ ret' = res
    /\ lock' = Released(t)
    /\ race' = IF t \in race.threads
               THEN [race EXCEPT !.outcomes = Append(@, res.kind)]
               ELSE race

\* the caller has taken the result; with the result of a batch the locals
\* of that check_triggered_alerts call are gone
Observe ==
    /\ ret # NoResult
    /\ ret' = NoResult
    /\ ev' = IF ev.state = "done" THEN [state |-> "idle", user_id |-> "",
                                        portfolio_holdings |->
                                            [given |-> FALSE, tickers |-> <<>>],
                                        alerts |-> <<>>, results |-> <<>>,
                                        outcomes |-> <<>>]
             ELSE ev
    /\ UNCHANGED <<maxPerUser, alerts, lock, pc, call, file, tmp, nextId, clock, returned,
                   ioFailed, race>>

----------------------------------------------------------------------------
(* create_alert *)

\* variant: the id is the number of stored alerts plus one
Uuid4_FromCount ==
    1 + Cardinality({<<u, i>> \in Owners \X (1..SeqNumIds) :
                        u \in DOMAIN alerts /\ i <= Len(alerts[u])})

\* variant: the generator repeats the id it gave out last
Uuid4_Repeat == IF nextId > 1 THEN nextId - 1 ELSE nextId

\* str(uuid.uuid4()): a value that was never given out before, in this
\* process or an earlier one
Uuid4 == nextId

\* uuid.uuid4 has a value left that it never gave out
UuidLeft(n) == nextId <= n

\* the owner's count as a create would find it now
CountOf(user_id) == Len(_get_user_alerts(alerts, user_id))

\* a caller issues create_alert(user_id, alert_data) and waits for the lock
CreateCall(t, user_id, data) ==
    /\ ret = NoResult
    /\ pc[t] = "idle"
    /\ pc' = [pc EXCEPT ![t] = "c_lock"]
    /\ call' = [call EXCEPT ![t] = [NoCall EXCEPT !.op = "create",
                                                  !.user_id = user_id,
                                                  !.data = data]]
    /\ race' = IF \E u \in Threads \ {t} :
                     /\ pc[u] = "c_lock"
                     /\ call[u].user_id = user_id
                     /\ CountOf(user_id) = maxPerUser - 1
               THEN [threads |-> Threads, outcomes |-> <<>>]
               ELSE NoRace
    /\ UNCHANGED <<maxPerUser, ev, alerts, lock, ret, file, tmp, nextId, clock, returned,
                   ioFailed>>

\* with self._lock: of create_alert
CreateAcquire(t) ==
    /\ ret = NoResult
    /\ pc[t] = "c_lock"
    /\ CanAcquire(t)
    /\ lock' = t
    /\ pc' = [pc EXCEPT ![t] = "c_check"]
    /\ UNCHANGED <<maxPerUser, ev, alerts, call, ret, file, tmp, nextId, clock, returned,
                   ioFailed, race>>

\* the quota check, and on success the building of alert_dict; the dict
\* literal takes its uuid and then reads alert_data["alert_type"], which
\* raises KeyError when the key is missing
CreateCheck(t) ==
    /\ ret = NoResult
    /\ pc[t] = "c_check"
    /\ LET user_alerts == _get_user_alerts(alerts, call[t].user_id)
       IN  IF AtLimit(Len(user_alerts))
           THEN /\ Finish(t, AlertLimitExceededError(Len(user_alerts)))
                /\ UNCHANGED <<nextId, clock>>
           ELSE IF call[t].data.alert_type = PyAbsent
           THEN /\ Finish(t, [kind |-> "KeyError", op |-> "create",
                              user_id |-> call[t].user_id])
                /\ nextId' = nextId + 1
                /\ clock' = clock + 1
           ELSE /\ call' = [call EXCEPT ![t].alert_dict =
                               AlertDict(Uuid4, call[t].user_id,
                                         call[t].data, clock)]
                /\ nextId' = nextId + 1
                /\ clock' = clock + 1
                /\ pc' = [pc EXCEPT ![t] = "c_append"]
                /\ UNCHANGED <<lock, ret, race>>
    /\ UNCHANGED <<maxPerUser, ev, alerts, file, tmp, returned, ioFailed>>

\* self._alerts[user_id].append(alert_dict), then on to _save_alerts
CreateAppend(t) ==
    /\ ret = NoResult
    /\ pc[t] = "c_append"
    /\ alerts' = SetUser(alerts, call[t].user_id,
                         Append(_get_user_alerts(alerts, call[t].user_id),
                                call[t].alert_dict))
    /\ pc' = [pc EXCEPT ![t] = "s_mkstemp"]
    /\ UNCHANGED <<maxPerUser, ev, lock, call, ret, file, tmp, nextId, clock, returned,
                   ioFailed, race>>

\* variant: the return does not wait for _save_alerts
ReturnReached_BeforeSave(t) == pc[t] \in {"s_mkstemp", "s_done"}

\* the return statement of create_alert comes after _save_alerts returned
ReturnReached(t) == pc[t] = "s_done"

\* return self._to_alert(alert_dict): the Alert, or the ValidationError of
\* its constructor
CreateReturn(t) ==
    /\ ret = NoResult
    /\ ReturnReached(t)
    /\ call[t].op = "create"
    /\ IF AlertValidates(call[t].alert_dict)
       THEN /\ Finish(t, [kind |-> "Created",
                          alert |-> _to_alert(call[t].alert_dict)])
            /\ returned' = Append(returned, call[t].alert_dict.id)
       ELSE /\ Finish(t, [kind |-> "ValidationError", op |-> "create",
                          user_id |-> call[t].user_id])
            /\ returned' = returned
    /\ UNCHANGED <<maxPerUser, ev, alerts, file, tmp, nextId, clock, ioFailed>>

----------------------------------------------------------------------------
(* delete_alert *)

\* a caller issues delete_alert(user_id, alert_id) and enters the with block
DeleteCall(t, user_id, alert_id) ==
    /\ ret = NoResult
    /\ pc[t] = "idle"
    /\ CanAcquire(t)
    /\ lock' = t
    /\ pc' = [pc EXCEPT ![t] = "d_check"]
    /\ call' = [call EXCEPT ![t] = [NoCall EXCEPT !.op = "delete",
                                                  !.user_id = user_id,
                                                  !.alert_id = alert_id]]
    /\ race' = NoRace
    /\ UNCHANGED <<maxPerUser, ev, alerts, ret, file, tmp, nextId, clock, returned, ioFailed>>

\* filter, compare the lengths, and either raise or store the filtered list
DeleteCheck(t) ==
    /\ ret = NoResult
    /\ pc[t] = "d_check"
    /\ LET user_alerts == _get_user_alerts(alerts, call[t].user_id)
           filtered == Filtered(user_alerts, call[t].alert_id)
       IN  IF NothingRemoved(filtered, Len(user_alerts))
           THEN /\ Finish(t, [kind |-> "NotFound", user_id |-> call[t].user_id,
                              alert_id |-> call[t].alert_id])
                /\ UNCHANGED alerts
           ELSE /\ alerts' = SetUser(alerts, call[t].user_id, filtered)
                /\ pc' = [pc EXCEPT ![t] = "s_mkstemp"]
                /\ UNCHANGED <<lock, call, ret, race>>
    /\ UNCHANGED <<maxPerUser, ev, file, tmp, nextId, clock, returned, ioFailed>>

\* delete_alert returns None
DeleteReturn(t) ==
    /\ ret = NoResult
    /\ pc[t] = "s_done"
    /\ call[t].op = "delete"
    /\ Finish(t, [kind |-> "Deleted", user_id |-> call[t].user_id,
                  alert_id |-> call[t].alert_id])
    /\ UNCHANGED <<maxPerUser, ev, alerts, file, tmp, nextId, clock, returned, ioFailed>>

----------------------------------------------------------------------------
(* list_alerts: the whole call is the read under the lock; it ends with the *)
(* list of Alerts, or with the ValidationError of the first Alert(data) call  *)
(* that rejects a stored dict                                               *)

ListAlerts(t, user_id) ==
    /\ ret = NoResult
    /\ pc[t] = "idle"
    /\ CanAcquire(t)
    /\ ret' = IF \A k \in 1..CountOf(user_id) :
                      AlertValidates(_get_user_alerts(alerts, user_id)[k])
               THEN [kind |-> "Listed", user_id |-> user_id,
                     alerts |-> ListOf(alerts, user_id)]
               ELSE [kind |-> "ValidationError", user_id |-> user_id,
                     alerts |-> <<>>]
    /\ race' = NoRace
    /\ UNCHANGED <<maxPerUser, ev, alerts, lock, pc, call, file, tmp, nextId, clock, returned,
                   ioFailed>>

----------------------------------------------------------------------------
(* _save_alerts, run by create_alert and delete_alert under the lock *)

\* the exception of a failed step leaves _save_alerts and the with block
SaveRaise(t, step) ==
    /\ Finish(t, [kind |-> "IOError", step |-> step, op |-> call[t].op,
                  user_id |-> call[t].user_id])
    /\ ioFailed' = TRUE

\* the except clause: os.unlink(tmp_path) if it exists
Unlinked(t) == [tmp EXCEPT ![t] = NoTmp]

\* mkdir and tempfile.mkstemp create the empty temporary file
SaveMkstemp(t) ==
    /\ ret = NoResult
    /\ pc[t] = "s_mkstemp"
    /\ tmp' = [tmp EXCEPT ![t] = [state |-> "empty", doc |-> EmptyMap]]
    /\ pc' = [pc EXCEPT ![t] = "s_write"]
    /\ UNCHANGED <<maxPerUser, ev, alerts, lock, call, ret, file, nextId, clock, returned,
                   ioFailed, race>>

\* mkdir or mkstemp fails: no temporary file exists, the error propagates
SaveMkstempFail(t) ==
    /\ ret = NoResult
    /\ pc[t] = "s_mkstemp"
    /\ SaveRaise(t, "mkstemp")
    /\ UNCHANGED <<maxPerUser, ev, alerts, file, tmp, nextId, clock, returned>>

\* json.dump writes the whole document and the with block closes the file
SaveWrite(t) ==
    /\ ret = NoResult
    /\ pc[t] = "s_write"
    /\ tmp' = [tmp EXCEPT ![t] = [state |-> "complete",
                                  doc |-> JsonDump(alerts)]]
    /\ pc' = [pc EXCEPT ![t] = "s_replace"]
    /\ UNCHANGED <<maxPerUser, ev, alerts, lock, call, ret, file, nextId, clock, returned,
                   ioFailed, race>>

\* fdopen, a write or the close fails part-way: the temporary file is removed
SaveWriteFail(t) ==
    /\ ret = NoResult
    /\ pc[t] = "s_write"
    /\ tmp' = Unlinked(t)
    /\ SaveRaise(t, "write")
    /\ UNCHANGED <<maxPerUser, ev, alerts, file, nextId, clock, returned>>

\* variant: os.replace inside the with block, before the file is written
ReplaceReached_Early(t) == pc[t] \in {"s_write", "s_replace"}

\* os.replace is reached only after the with block closed the written file
ReplaceReached(t) == pc[t] = "s_replace"

\* what os.replace puts in place of the data file: the temporary file as it is
Replaced(t) ==
    [exists |-> TRUE,
     kind |-> IF tmp[t].state = "complete" THEN "json" ELSE "truncated",
     doc |-> tmp[t].doc]

\* os.replace(tmp_path, data_file)
SaveReplace(t) ==
    /\ ret = NoResult
    /\ ReplaceReached(t)
    /\ file' = Replaced(t)
    /\ tmp' = [tmp EXCEPT ![t] = NoTmp]
    /\ pc' = [pc EXCEPT ![t] = "s_done"]
    /\ UNCHANGED <<maxPerUser, ev, alerts, lock, call, ret, nextId, clock, returned, ioFailed,
                   race>>

\* os.replace fails: the temporary file is removed
SaveReplaceFail(t) ==
    /\ ret = NoResult
    /\ pc[t] = "s_replace"
    /\ tmp' = Unlinked(t)
    /\ SaveRaise(t, "replace")
    /\ UNCHANGED <<maxPerUser, ev, alerts, file, nextId, clock, returned>>

----------------------------------------------------------------------------
(* The process ends at any point and a new one builds AlertService over   *)
(* the same data file: __init__ and _load_alerts.  Temporary files of the *)
(* old process stay on disk under names no later mkstemp reuses and are   *)
(* never read, so they are not kept in the state.  When __init__ raises,  *)
(* the new process has no store: its callers are "down" until the next    *)
(* start.                                                                 *)

Restart ==
    /\ ret = NoResult
    /\ alerts' = _load_alerts(file)
    /\ lock' = NoThread
    /\ pc' = [t \in Threads |-> IF LoadRaises(file) THEN "down" ELSE "idle"]
    /\ ret' = IF LoadRaises(file) THEN LoadError(file) ELSE ret
    /\ call' = [t \in Threads |-> NoCall]
    /\ tmp' = [t \in Threads |-> NoTmp]
    /\ ioFailed' = FALSE
    /\ race' = NoRace
    /\ ev' = NoEval
    /\ UNCHANGED <<maxPerUser, file, nextId, clock, returned>>

\* something other than the store puts a file at the data file's path
ExternalWrite(k) ==
    /\ ret = NoResult
    /\ file' = [exists |-> TRUE, kind |-> k, doc |-> EmptyMap]
    /\ UNCHANGED <<maxPerUser, ev, alerts, lock, pc, call, ret, tmp, nextId, clock,
                   returned, ioFailed, race>>

----------------------------------------------------------------------------
(* check_triggered_alerts: the list under the lock, then one evaluation per *)
(* listed alert without the lock, then the tallies                          *)

\* the task that runs check_triggered_alerts, as a holder of the lock
BatchTask == "batch"

\* variant: the lock taken for the list is kept for the whole batch
AfterList_Held(holder) == BatchTask

\* list_alerts has returned: its with block is left, the lock is with
\* whoever held it before the call
AfterList(holder) == holder

\* alerts = self.list_alerts(user_id); results = []
CheckStart(user_id, portfolio_holdings) ==
    /\ ret = NoResult
    /\ ev.state # "running"
    /\ lock = NoThread
    /\ lock' = AfterList(lock)
    /\ \A t \in Threads : pc[t] # "down"
    /\ IF \A k \in 1..CountOf(user_id) :
             AlertValidates(_get_user_alerts(alerts, user_id)[k])
       THEN /\ ev' = [state |-> "running", user_id |-> user_id,
                      portfolio_holdings |-> portfolio_holdings,
                      alerts |-> ListOf(alerts, user_id),
                      results |-> <<>>, outcomes |-> <<>>]
            /\ ret' = ret
       ELSE /\ ev' = NoEval
            /\ ret' = [kind |-> "ValidationError", op |-> "check",
                       user_id |-> user_id]
    /\ UNCHANGED <<maxPerUser, alerts, pc, call, file, tmp, nextId,
                   clock, returned, ioFailed, race>>

\* one round of the loop: the next alert is dispatched to its strategy with
\* what the collaborators give, and the result is appended; an exception
\* that leaves the strategy leaves check_triggered_alerts
EvaluateNext ==
    /\ ret = NoResult
    /\ ev.state = "running"
    /\ Len(ev.outcomes) < Len(ev.alerts)
    /\ LET alert == ev.alerts[Len(ev.outcomes) + 1]
           holdings == HoldingsOf(ev.portfolio_holdings)
       IN  \E o \in OutcomesFor(alert, holdings) :
               LET result == ResultOf(alert, holdings, o)
               IN  IF result = Raised
                   THEN /\ ev' = NoEval
                        /\ ret' = [kind |-> "BatchError",
                                   user_id |-> ev.user_id]
                   ELSE /\ ev' = [ev EXCEPT
                                     !.results = Appended(@, result),
                                     !.outcomes = Append(@, o)]
                        /\ ret' = ret
    /\ UNCHANGED <<maxPerUser, alerts, lock, pc, call, file, tmp, nextId,
                   clock, returned, ioFailed, race>>

\* the loop is over: the tallies, and return results, summary
CheckReturn ==
    /\ ret = NoResult
    /\ ev.state = "running"
    /\ Len(ev.outcomes) = Len(ev.alerts)
    /\ ret' = [kind |-> "Checked", user_id |-> ev.user_id,
               results |-> ev.results,
               summary |-> TriggeredAlertsSummary(ev.results)]
    /\ ev' = [ev EXCEPT !.state = "done"]
    /\ UNCHANGED <<maxPerUser, alerts, lock, pc, call, file, tmp, nextId,
                   clock, returned, ioFailed, race>>

----------------------------------------------------------------------------

\* the steps of the callers in T, with n uuids to give out
NextOf(T, n) ==
    \/ \E t \in T, u \in Owners, d \in Payloads :
          (UuidLeft(n) \/ AtLimit(CountOf(u))) /\ CreateCall(t, u, d)
    \/ \E t \in T, u \in Owners, i \in 1..n : DeleteCall(t, u, i)
    \/ \E t \in T, u \in Owners : ListAlerts(t, u)
    \/ \E t \in T : CreateAcquire(t)
    \/ \E t \in T :
          (UuidLeft(n) \/ AtLimit(CountOf(call[t].user_id))) /\ CreateCheck(t)
    \/ \E t \in T : CreateAppend(t)
    \/ \E t \in T : CreateReturn(t)
    \/ \E t \in T : DeleteCheck(t)
    \/ \E t \in T : DeleteReturn(t)
    \/ \E t \in T : SaveMkstemp(t)
    \/ \E t \in T : SaveMkstempFail(t)
    \/ \E t \in T : SaveWrite(t)
    \/ \E t \in T : SaveWriteFail(t)
    \/ \E t \in T : SaveReplace(t)
    \/ \E t \in T : SaveReplaceFail(t)
    \/ Observe
    \/ Restart

Next == NextOf(Threads, NumIds)
NextSeq == NextOf(SeqThreads, SeqNumIds)

\* two concurrent callers
Spec == Init /\ [][Next]_vars

\* one caller, a larger store
SpecSeq == InitSeq /\ [][NextSeq]_vars

\* one caller, and a data file that is not always the store's own
NextBoot ==
    \/ NextOf(SeqThreads, NumIds)
    \/ \E k \in ForeignKinds : ExternalWrite(k)

SpecBoot == Init /\ [][NextBoot]_vars

\* one caller whose payloads no request schema has checked, and one batch
\* at a time running next to it; every persistence step succeeds
RawOwners == {"A"}

NextRaw ==
    \/ \E t \in SeqThreads, u \in RawOwners, d \in Payloads \cup RawPayloads :
          (UuidLeft(NumIds) \/ AtLimit(CountOf(u))) /\ CreateCall(t, u, d)
    \/ \E t \in SeqThreads, u \in RawOwners, i \in 1..NumIds :
          DeleteCall(t, u, i)
    \/ \E t \in SeqThreads, u \in RawOwners : ListAlerts(t, u)
    \/ \E t \in SeqThreads : CreateAcquire(t)
    \/ \E t \in SeqThreads :
          (UuidLeft(NumIds) \/ AtLimit(CountOf(call[t].user_id)))
          /\ CreateCheck(t)
    \/ \E t \in SeqThreads : CreateAppend(t)
    \/ \E t \in SeqThreads : CreateReturn(t)
    \/ \E t \in SeqThreads : DeleteCheck(t)
    \/ \E t \in SeqThreads : DeleteReturn(t)
    \/ \E t \in SeqThreads : SaveMkstemp(t)
    \/ \E t \in SeqThreads : SaveWrite(t)
    \/ \E t \in SeqThreads : SaveReplace(t)
    \/ Observe
    \/ Restart
    \/ \E u \in RawOwners : CheckStart(u, NoHoldings)
    \/ EvaluateNext
    \/ CheckReturn

SpecRaw == Init /\ [][NextRaw]_vars

\* the store of owner A after n creates with the payloads ds, as the
\* creates left it
StoreOf(n, ds) ==
    IF n = 0 THEN EmptyMap
    ELSE [u \in {"A"} |-> [i \in 1..n |-> AlertDict(i, "A", ds[i], i)]]

\* evaluation runs over a store that up to EvalMaxAlerts creates of any
\* kinds have filled
InitEval ==
    \E n \in 0..EvalMaxAlerts : \E ds \in [1..n -> EvalPayloads] :
        /\ maxPerUser = EvalMaxAlerts
        /\ alerts = StoreOf(n, ds)
        /\ file = IF n = 0 THEN NoFile
                  ELSE [exists |-> TRUE, kind |-> "json",
                        doc |-> JsonDump(StoreOf(n, ds))]
        /\ nextId = n + 1
        /\ clock = n + 1
        /\ returned = [i \in 1..n |-> i]
        /\ lock = NoThread
        /\ pc = [t \in Threads |-> "idle"]
        /\ call = [t \in Threads |-> NoCall]
        /\ ret = NoResult
        /\ tmp = [t \in Threads |-> NoTmp]
        /\ ioFailed = FALSE
        /\ race = NoRace
        /\ ev = NoEval

NextEval ==
    \/ \E u \in Owners, h \in HoldingsChoices : CheckStart(u, h)
    \/ EvaluateNext
    \/ CheckReturn
    \/ Observe

\* batches of evaluations over a store that does not change meanwhile
SpecEval == InitEval /\ [][NextEval]_vars

----------------------------------------------------------------------------
(* Properties *)

IdsOf(m, user_id) ==
    {_get_user_alerts(m, user_id)[i].id :
        i \in 1..Len(_get_user_alerts(m, user_id))}

AllIdle == \A t \in Threads : pc[t] = "idle"

\* the positions between entering and leaving a with self._lock block
InCritical(t) ==
    pc[t] \in {"c_check", "c_append", "d_check", "s_mkstemp", "s_write",
               "s_replace", "s_done"}

\* what a fresh store over the durable file would list for an owner
DurableList(user_id) == ListOf(_load_alerts(file), user_id)

\* C1: whatever creates, deletes and lists the concurrent callers interleave,
\* every owner's collection holds at most max_per_user alerts.
C1_QuotaNeverExceeded ==
    \A u \in DOMAIN alerts : Len(alerts[u]) <= maxPerUser

\* an owner is at the maximum after two creates for that owner ran concurrently
C1_Witness ==
    /\ Len(race.outcomes) = 2
    /\ \E u \in Owners : CountOf(u) = maxPerUser

\* C2: a create that finds its owner at count = max fails with
\* QuotaExceeded{current_count = max, max_allowed = max} and leaves every
\* collection, the durable file and the temporary files as they were.
C2_QuotaExceededChangesNothing ==
    [][\A t \in Threads :
          (CreateCheck(t) /\ CountOf(call[t].user_id) = maxPerUser) =>
              /\ ret' = [kind |-> "QuotaExceeded",
                         current_count |-> maxPerUser,
                         max_allowed |-> maxPerUser]
              /\ pc'[t] = "idle"
              /\ alerts' = alerts
              /\ file' = file
              /\ tmp' = tmp]_vars

\* a create was refused at the maximum while the file holds the earlier alerts
C2_Witness ==
    /\ ret.kind = "QuotaExceeded"
    /\ ret.current_count = maxPerUser
    /\ file.exists
    /\ \E u \in Owners : CountOf(u) = maxPerUser

\* C3: at most one thread is inside a with self._lock block, and of two
\* creates pending for one owner with one free slot the two never both pass
\* the quota check: the one that takes the lock second always fails with
\* QuotaExceeded, and the first succeeds (unless its own persistence step
\* raises), so that without a persistence failure exactly one succeeds.
C3_OneOfTwoCreates ==
    /\ \A t, u \in Threads : (t # u /\ InCritical(t)) => ~InCritical(u)
    /\ Len(race.outcomes) = 2 =>
          /\ race.outcomes[2] = "QuotaExceeded"
          /\ race.outcomes[1] \in {"Created", "IOError"}
          /\ (race.outcomes[1] # "IOError") =>
                {race.outcomes[1], race.outcomes[2]} =
                    {"Created", "QuotaExceeded"}

\* both racing creates have ended: the first created, the second was refused
C3_Witness == race.outcomes = <<"Created", "QuotaExceeded">>

\* C4: every stored and every listed alert carries the user_id of the owner
\* it is stored or listed under, and a delete by one owner of an id that
\* exists only under another owner fails with NotFound.
C4_OwnershipIsolation ==
    /\ [](\A u \in DOMAIN alerts : \A i \in 1..Len(alerts[u]) :
             alerts[u][i].user_id = u)
    /\ [](ret.kind = "Listed" =>
             \A i \in 1..Len(ret.alerts) : ret.alerts[i].user_id = ret.user_id)
    /\ [][\A t \in Threads :
             (/\ DeleteCheck(t)
              /\ call[t].alert_id \notin IdsOf(alerts, call[t].user_id)
              /\ \E v \in Owners : call[t].alert_id \in IdsOf(alerts, v)) =>
                 /\ ret'.kind = "NotFound"
                 /\ alerts' = alerts]_vars

\* owner v was refused the delete of an alert that owner u still holds
C4_Witness ==
    /\ ret.kind = "NotFound"
    /\ \E u \in Owners : /\ u # ret.user_id
                         /\ ret.alert_id \in IdsOf(alerts, u)

\* C5: a delete ends with NotFound only when the id is absent under that
\* owner, and that step ends the call and changes no collection, no file.
C5_NotFoundChangesNothing ==
    [][\A t \in Threads :
          (DeleteCheck(t) /\ ret'.kind = "NotFound") =>
              /\ call[t].alert_id \notin IdsOf(alerts, call[t].user_id)
              /\ pc'[t] = "idle"
              /\ alerts' = alerts
              /\ file' = file
              /\ tmp' = tmp]_vars

\* the delete of an id that create once returned and no owner holds any more
C5_Witness ==
    /\ ret.kind = "NotFound"
    /\ \E i \in 1..Len(returned) : returned[i] = ret.alert_id
    /\ \A u \in Owners : ret.alert_id \notin IdsOf(alerts, u)
    /\ file.exists

\* C6: a delete that finds the id removes that one alert from that owner's
\* list, keeps the others as they were and in their order, leaves the other
\* owners alone, and has the whole mapping in the durable file when it
\* returns.
C6_DeleteRemovesExactlyOne ==
    /\ [][\A t \in Threads :
             (DeleteCheck(t) /\ pc'[t] = "s_mkstemp") =>
                 LET u == call[t].user_id
                     old == _get_user_alerts(alerts, u)
                 IN  /\ \E k \in 1..Len(old) :
                           /\ old[k].id = call[t].alert_id
                           /\ alerts'[u] = SubSeq(old, 1, k - 1)
                                           \o SubSeq(old, k + 1, Len(old))
                     /\ DOMAIN alerts' = DOMAIN alerts
                     /\ \A v \in DOMAIN alerts \ {u} :
                           alerts'[v] = alerts[v]]_vars
    /\ [][\A t \in Threads :
             DeleteReturn(t) =>
                 file = [exists |-> TRUE, kind |-> "json",
                         doc |-> JsonDump(alerts)]]_vars

\* the middle one of three alerts was deleted: two remain around it
C6_Witness ==
    /\ ret.kind = "Deleted"
    /\ Len(_get_user_alerts(alerts, ret.user_id)) = 2
    /\ alerts[ret.user_id][1].id < ret.alert_id
    /\ ret.alert_id < alerts[ret.user_id][2].id

\* C7: no id occurs twice among the alerts create returned, and no id occurs
\* twice in the store, across all owners, deletes and restarts included.
C7_IdsUnique ==
    /\ \A i, j \in 1..Len(returned) : i # j => returned[i] # returned[j]
    /\ \A u, v \in DOMAIN alerts :
          \A i \in 1..Len(alerts[u]), j \in 1..Len(alerts[v]) :
              (u # v \/ i # j) => alerts[u][i].id # alerts[v][j].id

\* two creates returned, one alert was deleted since, the store was rebuilt
\* from the file and holds the other
C7_Witness ==
    /\ Len(returned) = 2
    /\ alerts = _load_alerts(file)
    /\ \E u \in Owners : Len(_get_user_alerts(alerts, u)) = 1
    /\ \E i \in 1..2 : \A u \in Owners : returned[i] \notin IdsOf(alerts, u)

\* C8: with no call in progress and no persistence failure since the store
\* was built, a fresh store over the durable file lists for every owner
\* the same alerts, in the same order, as the live store.
C8_DurabilityRoundTrip ==
    (AllIdle /\ ~ioFailed) =>
        \A u \in Owners : DurableList(u) = ListOf(alerts, u)

\* an owner holds two alerts whose dicts in memory are not the dicts
\* json.loads gives back
C8_Witness ==
    /\ AllIdle
    /\ ~ioFailed
    /\ ret.kind = "Deleted"
    /\ \E u \in Owners : Len(_get_user_alerts(alerts, u)) = 2
    /\ alerts # _load_alerts(file)

\* C9: the durable file is always absent or a complete document; it changes
\* only to the complete dump of the in-memory mapping; and a persistence step
\* that fails leaves no temporary file and the durable file as it was.
C9_AtomicPersistence ==
    /\ [](file.exists => file.kind = "json")
    /\ [][file' # file =>
             file' = [exists |-> TRUE, kind |-> "json",
                      doc |-> JsonDump(alerts)]]_vars
    /\ [][(ret'.kind = "IOError" /\ ret.kind # "IOError") =>
             /\ file' = file
             /\ \A t \in Threads : tmp'[t] = NoTmp]_vars

\* the rename failed: the file still holds the previous state, not the new one
C9_Witness ==
    /\ ret.kind = "IOError"
    /\ ret.step = "replace"
    /\ file.exists
    /\ file.doc # JsonDump(alerts)
    /\ \A t \in Threads : tmp[t] = NoTmp

\* C10: after a create or delete whose persistence step failed, every
\* owner's list is what the durable file holds.
C10_NoDivergenceAfterFailure ==
    ret.kind = "IOError" =>
        \A u \in Owners : ListOf(alerts, u) = DurableList(u)

\* C11: when create returns an alert, the durable file already holds that
\* alert, as the returned entity, under its owner; and an alert that is in
\* the file and in the store stays in the file, whatever step comes next
\* (the end of the process and a restart included), until a delete of that
\* very alert has taken it out of the store.
C11_WriteThenReturn ==
    /\ [][\A t \in Threads :
             CreateReturn(t) =>
                 LET u == call[t].user_id
                 IN  /\ ret'.kind = "Created"
                     /\ file.exists /\ file.kind = "json"
                     /\ file' = file
                     /\ \E k \in 1..Len(DurableList(u)) :
                           DurableList(u)[k] = ret'.alert
                     /\ call[t].alert_dict.id \in IdsOf(alerts, u)]_vars
    /\ [][LET loaded == _load_alerts(file)
          IN  \A u \in Owners :
                  \A i \in IdsOf(alerts, u) \cap IdsOf(loaded, u) :
                      /\ file' # file => i \in IdsOf(_load_alerts(file'), u)
                      /\ \/ i \in IdsOf(alerts', u)
                         \/ \E t \in Threads : /\ pc[t] = "d_check"
                                                /\ call[t].user_id = u
                                                /\ call[t].alert_id = i]_vars

\* the process ended after create returned; the store built from the file
\* lists the returned alert
C11_Witness ==
    /\ ret.kind = "Listed"
    /\ Len(ret.alerts) = 1
    /\ Len(returned) = 1
    /\ ret.alerts[1].id = returned[1]
    /\ alerts[ret.user_id][1].price_direction = PyStr("above")

\* the ids held somewhere: in an owner's collection in store m, in an
\* owner's collection of file f, in the alert a pending create of c is
\* about to append
HeldIds(m, f, c) ==
    LET loaded == _load_alerts(f)
    IN  UNION ({IdsOf(m, u) \cup IdsOf(loaded, u) : u \in Owners}
               \cup {{c[t].alert_dict.id : t \in Threads}})

\* an id that was given out and is held nowhere
Gone(i) == i \in 1..(nextId - 1) /\ i \notin HeldIds(alerts, file, call)

\* C12: when delete(owner, id) returns, the id is in no owner's collection,
\* in the store or in the file; from then on it stays out of every
\* collection across creates, deletes and restarts; no list shows it; a
\* further delete of it ends with NotFound; and the delete of an owner's
\* only alert leaves that owner's list empty.
C12_DeletedStaysDeleted ==
    /\ [][\A t \in Threads :
             DeleteReturn(t) =>
                 /\ ret'.kind = "Deleted"
                 /\ Gone(call[t].alert_id)]_vars
    /\ [][/\ nextId' >= nextId
          /\ \A i \in HeldIds(alerts', file', call') \cap 1..(nextId - 1) :
                i \in HeldIds(alerts, file, call)]_vars
    /\ [](ret.kind = "Listed" =>
             \A k \in 1..Len(ret.alerts) : ~Gone(ret.alerts[k].id))
    /\ [][\A t \in Threads :
             (DeleteCheck(t) /\ Gone(call[t].alert_id)) =>
                 /\ ret'.kind = "NotFound"
                 /\ ret'.alert_id = call[t].alert_id]_vars
    /\ [][\A t \in Threads :
             (/\ DeleteCheck(t)
              /\ pc'[t] = "s_mkstemp"
              /\ CountOf(call[t].user_id) = 1) =>
                 ListOf(alerts', call[t].user_id) = <<>>]_vars

\* the one alert ever created was returned and then deleted; the list of its
\* owner is empty
C12_Witness ==
    /\ ret.kind = "Listed"
    /\ ret.alerts = <<>>
    /\ ret.user_id \in DOMAIN alerts
    /\ returned = <<1>>
    /\ nextId = 2
    /\ Gone(1)
    /\ file.exists

\* C13: list returns one Alert per stored dict of the owner, in the stored
\* order, which is the order in which create issued them (ids are numbered
\* in that order), and the empty sequence for an owner without a key or
\* without alerts; a create appends its alert at the end of its owner's
\* list and touches no other list; the alert create returns is the last
\* element of what list gives next.
C13_ListInInsertionOrder ==
    /\ [](ret.kind = "Listed" =>
             LET raw == _get_user_alerts(alerts, ret.user_id)
             IN  /\ Len(ret.alerts) = Len(raw)
                 /\ \A k \in 1..Len(raw) : ret.alerts[k] = _to_alert(raw[k])
                 /\ \A j, k \in 1..Len(raw) :
                       j < k => ret.alerts[j].id < ret.alerts[k].id
                 /\ (ret.user_id \notin DOMAIN alerts \/ raw = <<>>) =>
                       ret.alerts = <<>>)
    /\ [][\A t \in Threads :
             CreateAppend(t) =>
                 LET u == call[t].user_id
                 IN  /\ alerts'[u] = Append(_get_user_alerts(alerts, u),
                                            call[t].alert_dict)
                     /\ \A v \in DOMAIN alerts \ {u} : alerts'[v] = alerts[v]
                     /\ DOMAIN alerts' = DOMAIN alerts \cup {u}]_vars
    /\ [][\A t \in Threads :
             CreateReturn(t) =>
                 LET next == ListOf(alerts', call[t].user_id)
                 IN  /\ Len(next) >= 1
                     /\ next[Len(next)] = ret'.alert]_vars

\* three creates for one owner returned, the second alert was deleted: the
\* list shows the first and the third, in that order
C13_Witness ==
    /\ ret.kind = "Listed"
    /\ Len(returned) = 3
    /\ Len(ret.alerts) = 2
    /\ ret.alerts[1].id = returned[1]
    /\ ret.alerts[2].id = returned[3]

\* C14: in every state that creates, deletes, failed saves and restarts
\* over the durable file lead to (the states right after a restart hold
\* what the file loads), every dict in the store passes Alert validation,
\* and no call of list has ended with an exception: it gave one Alert per
\* stored dict of the owner.
C14_ListNeverFails ==
    /\ \A u \in Owners : \A k \in 1..CountOf(u) :
          AlertValidates(_get_user_alerts(alerts, u)[k])
    /\ ret.kind # "ValidationError"
    /\ ret.kind = "Listed" => Len(ret.alerts) = CountOf(ret.user_id)

\* list over a store that was rebuilt from the file: three alerts whose
\* enum fields are plain strings in the loaded dicts
C14_Witness ==
    /\ ret.kind = "Listed"
    /\ Len(ret.alerts) = 3
    /\ alerts = _load_alerts(file)
    /\ \A k \in 1..3 : alerts[ret.user_id][k].price_direction = PyStr("above")

\* C15: building a store over the data file never raises; over a missing
\* file, and over a file that does not parse or does not hold the mapping
\* of owners to alert sequences, the new store is empty.
C15_StartupNeverFails ==
    [][Restart =>
          /\ ret'.kind # "BootError"
          /\ \A t \in SeqThreads : pc'[t] = "idle"
          /\ (~file.exists \/ file.kind # "json") => alerts' = EmptyMap]_vars

\* C16: a batch that returns gives one result per alert the owner's list
\* holds, the i-th result carrying the summary of the i-th listed alert, all
\* of different alerts, whatever the kinds of the alerts and whatever the
\* collaborators gave; while the loop runs, every round has added one result.
C16_OneResultPerAlert ==
    /\ ev.state = "running" =>
          /\ Len(ev.results) = Len(ev.outcomes)
          /\ ev.alerts = ListOf(alerts, ev.user_id)
    /\ ret.kind = "Checked" =>
          LET listed == ListOf(alerts, ret.user_id)
          IN  /\ Len(ret.results) = Len(listed)
              /\ \A i \in 1..Len(listed) :
                    /\ ret.results[i].alert.id = listed[i].id
                    /\ ret.results[i].alert = _alert_to_summary(listed[i])
              /\ \A i, j \in 1..Len(ret.results) :
                    i # j => ret.results[i].alert.id # ret.results[j].alert.id

\* a batch over two alerts of different kinds returned: the evaluation of
\* the first failed, the second has a verdict
C16_Witness ==
    /\ ret.kind = "Checked"
    /\ Len(ret.results) = 2
    /\ ret.results[1].error # PyNone
    /\ ret.results[2].error = PyNone
    /\ ret.results[1].alert.alert_type # ret.results[2].alert.alert_type

\* C17: no batch ends with an exception; every round of the loop leaves the
\* results of the earlier rounds as they were; a PriceThreshold alert whose
\* fetch raised and a SignalChange alert whose fetch, indicator or signal
\* call raised have a result with an error and triggered = false; and every
\* result is what its own alert and its own collaborator outcome give, so
\* it is the same whether or not the evaluation of another alert failed.
C17_FailureStaysWithItsAlert ==
    /\ [](ret.kind \notin {"BatchError", "ValidationError"})
    /\ [][EvaluateNext =>
             /\ ev'.state = "running"
             /\ Len(ev'.results) = Len(ev.results) + 1
             /\ SubSeq(ev'.results, 1, Len(ev.results)) = ev.results]_vars
    /\ [](ev.state \in {"running", "done"} =>
             \A i \in 1..Len(ev.results) :
                 LET a == ev.alerts[i]
                     o == ev.outcomes[i]
                     r == ev.results[i]
                 IN  /\ r = ResultOf(a, HoldingsOf(ev.portfolio_holdings), o)
                     /\ r.alert.id = a.id
                     /\ (a.alert_type = PyEnum("price_threshold")
                          /\ ~o.quotes[1].ok) =>
                            (r.error # PyNone /\ ~r.triggered)
                     /\ (a.alert_type = PyEnum("signal_change")
                          /\ ~o.signal.ok) =>
                            (r.error # PyNone /\ ~r.triggered))
    /\ [][CheckReturn => ret'.results = ev.results]_vars

\* the batch returned although the indicator computation for the first
\* alert raised; the second alert, a price alert, is triggered
C17_Witness ==
    /\ ret.kind = "Checked"
    /\ Len(ret.results) = 2
    /\ ev.alerts[1].alert_type = PyEnum("signal_change")
    /\ ev.outcomes[1].signal.stage = "calculate"
    /\ ret.results[1].error # PyNone
    /\ ~ret.results[1].triggered
    /\ ev.alerts[2].alert_type = PyEnum("price_threshold")
    /\ ret.results[2].triggered

\* C18: in what a batch returns, total_alerts is the number of results,
\* triggered_count the number of results with triggered = true, error_count
\* the number of results with an error, not_triggered_count is
\* total - triggered - errors and is the number of results with neither;
\* the four counts are not negative and the three parts add up to the total.
C18_Tallies ==
    ret.kind = "Checked" =>
        LET rs == ret.results
            sm == ret.summary
            idx == 1..Len(rs)
        IN  /\ sm.total_alerts = Len(rs)
            /\ sm.triggered_count = Cardinality({i \in idx : rs[i].triggered})
            /\ sm.error_count = Cardinality({i \in idx : rs[i].error # PyNone})
            /\ sm.not_triggered_count =
                  sm.total_alerts - sm.triggered_count - sm.error_count
            /\ sm.not_triggered_count =
                  Cardinality({i \in idx : /\ ~rs[i].triggered
                                            /\ rs[i].error = PyNone})
            /\ sm.total_alerts >= 0
            /\ sm.triggered_count >= 0
            /\ sm.error_count >= 0
            /\ sm.not_triggered_count >= 0
            /\ sm.triggered_count + sm.not_triggered_count + sm.error_count
                  = sm.total_alerts

\* a batch of two returned: one evaluation failed, the other has a verdict
\* and is not triggered
C18_Witness ==
    /\ ret.kind = "Checked"
    /\ ret.summary.total_alerts = 2
    /\ ret.summary.triggered_count = 0
    /\ ret.summary.error_count = 1
    /\ ret.summary.not_triggered_count = 1

\* C19: the result of a PriceThreshold alert whose fetch gave the close p
\* has no error, shows p, and is triggered exactly when the direction is
\* above and p > target_price, or the direction is below and
\* p < target_price; with p = target_price it is not triggered; and for a
\* target of 200 above, a close of 205 gives triggered and a close of 195
\* gives not triggered, in whatever batch the alert is evaluated.
C19_PriceVerdict ==
    ev.state \in {"running", "done"} =>
        \A i \in 1..Len(ev.results) :
            LET a == ev.alerts[i]
                r == ev.results[i]
                q == ev.outcomes[i].quotes
            IN  (a.alert_type = PyEnum("price_threshold") /\ q[1].ok) =>
                    LET p == q[1].close
                        target == FloatOf(a.target_price)
                        above == a.price_direction = PyEnum("above")
                        below == a.price_direction = PyEnum("below")
                    IN  /\ r.error = PyNone
                        /\ r.current_value = Fmt2(p)
                        /\ r.triggered <=> \/ (above /\ p > target)
                                          \/ (below /\ p < target)
                        /\ p = target => ~r.triggered
                        /\ (above /\ target = 200 /\ p = 205) => r.triggered
                        /\ (above /\ target = 200 /\ p = 195) => ~r.triggered

\* one batch evaluated an above-200 alert and a below-200 alert at a close
\* of exactly 200: neither is triggered
C19_Witness ==
    /\ ret.kind = "Checked"
    /\ Len(ret.results) = 2
    /\ ev.alerts[1].price_direction = PyEnum("above")
    /\ ev.alerts[2].price_direction = PyEnum("below")
    /\ \A i \in 1..2 : /\ ev.outcomes[i].quotes = <<[ok |-> TRUE, close |-> 200]>>
                        /\ FloatOf(ev.alerts[i].target_price) = 200
                        /\ ~ret.results[i].triggered
                        /\ ret.results[i].error = PyNone

\* C20: the result of a PortfolioValue alert evaluated over non-empty
\* holdings with the current total c is triggered exactly when the baseline
\* is positive and |c - baseline| / baseline * 100 >= percentage_threshold,
\* the boundary included; without a positive baseline it is not triggered;
\* a baseline of 1000 with threshold 5 and total 1060 is triggered.
C20_PortfolioVerdict ==
    ev.state \in {"running", "done"} =>
        \A i \in 1..Len(ev.results) :
            LET a == ev.alerts[i]
                r == ev.results[i]
                holdings == HoldingsOf(ev.portfolio_holdings)
            IN  (a.alert_type = PyEnum("portfolio_value") /\ holdings # <<>>) =>
                    LET c == SumCloses(ev.outcomes[i].quotes)
                        positive == a.baseline_value.ty = "float"
                        b == IF positive THEN FloatOf(a.baseline_value) ELSE 0
                        threshold == FloatOf(a.percentage_threshold)
                    IN  /\ r.error = PyNone
                        /\ r.current_value = Fmt2(c)
                        /\ r.triggered <=>
                              (b > 0 /\ Abs(c - b) * 100 >= threshold * b)
                        /\ b <= 0 => ~r.triggered
                        /\ (b = 1000 /\ threshold = 5 /\ c = 1060) =>
                              r.triggered

\* the sum of the closes of the quotes at the positions in S
RECURSIVE SumAt(_, _)
SumAt(quotes, S) ==
    IF S = {} THEN 0
    ELSE LET j == CHOOSE k \in S : TRUE
         IN  quotes[j].close + SumAt(quotes, S \ {j})

\* C21: the result of a PortfolioValue alert evaluated over non-empty
\* holdings has one fetch per holding, in order, whether or not an earlier
\* fetch failed; its current value is the sum of the closes of exactly the
\* fetches that succeeded; and it carries no error. For holdings [Y, W, Z]
\* with the fetch of W failing the value is the close of Y plus the close
\* of Z.
C21_PartialSum ==
    ev.state \in {"running", "done"} =>
        \A i \in 1..Len(ev.results) :
            LET a == ev.alerts[i]
                r == ev.results[i]
                q == ev.outcomes[i].quotes
                holdings == HoldingsOf(ev.portfolio_holdings)
            IN  (a.alert_type = PyEnum("portfolio_value") /\ holdings # <<>>) =>
                    LET ok == {j \in 1..Len(q) : q[j].ok}
                    IN  /\ Len(q) = Len(holdings)
                        /\ \A j \in 1..Len(q) :
                              q[j] \in FetchOutcomes(holdings[j])
                        /\ r.current_value = Fmt2(SumAt(q, ok))
                        /\ r.error = PyNone
                        /\ (holdings = <<"Y", "W", "Z">>
                             /\ ok = {1, 3}) =>
                               r.current_value = Fmt2(10 + 20)

\* a batch returned whose portfolio alert was evaluated over [Y, W, Z] with
\* the fetch of W failing: the value shown is 30 and there is no error
C21_Witness ==
    /\ ret.kind = "Checked"
    /\ Len(ret.results) = 1
    /\ ev.alerts[1].alert_type = PyEnum("portfolio_value")
    /\ ev.portfolio_holdings.tickers = <<"Y", "W", "Z">>
    /\ ev.outcomes[1].quotes[1].ok
    /\ ~ev.outcomes[1].quotes[2].ok
    /\ ev.outcomes[1].quotes[3].ok
    /\ ret.results[1].current_value = Fmt2(30)
    /\ ret.results[1].error = PyNone

\* a result with an error has triggered = false and no current value
FailureShape(r) ==
    /\ r.error # PyNone
    /\ ~r.triggered
    /\ r.current_value = PyNone

\* C22: in every result of a batch in progress and of a batch that
\* returned, an error is there only when a collaborator call of that
\* alert's evaluation raised; a result with an error has triggered = false
\* and no current value; a result with a current value has no error; and
\* what the except clause of each strategy and the branch for an unknown
\* type build for a listed alert has an error, triggered = false and no
\* current value.
C22_ErrorExcludesVerdict ==
    /\ ev.state \in {"running", "done"} =>
          /\ \A i \in 1..Len(ev.results) :
                LET a == ev.alerts[i]
                    o == ev.outcomes[i]
                    r == ev.results[i]
                IN  /\ r.error # PyNone =>
                          /\ FailureShape(r)
                          /\ \/ /\ a.alert_type = PyEnum("price_threshold")
                                /\ ~o.quotes[1].ok
                             \/ /\ a.alert_type = PyEnum("signal_change")
                                /\ ~o.signal.ok
                    /\ r.current_value # PyNone => r.error = PyNone
                    /\ r.triggered => r.error = PyNone
          /\ \A i \in 1..Len(ev.alerts) :
                LET a == ev.alerts[i]
                IN  /\ FailureShape(PriceFailure(a))
                    /\ FailureShape(SignalFailure(a))
                    /\ FailureShape(PortfolioFailure(a))
                    /\ FailureShape(ResultOf([a EXCEPT !.alert_type = Invalid],
                                             <<>>, NoSignal))
    /\ ret.kind = "Checked" =>
          \A i \in 1..Len(ret.results) :
              /\ ret.results[i].error # PyNone => FailureShape(ret.results[i])
              /\ ret.results[i].current_value # PyNone =>
                    ret.results[i].error = PyNone

\* a batch returned: the signal computation of the first alert raised and
\* its result has the error and no value; the second, a portfolio alert,
\* shows its total and has no error
C22_Witness ==
    /\ ret.kind = "Checked"
    /\ Len(ret.results) = 2
    /\ ev.outcomes[1].signal.stage = "generate"
    /\ FailureShape(ret.results[1])
    /\ ret.results[2].alert.alert_type = PyEnum("portfolio_value")
    /\ ret.results[2].current_value = Fmt2(1050)
    /\ ret.results[2].triggered
    /\ ret.results[2].error = PyNone

\* C27: the result of a PortfolioValue alert is not triggered, and shows a
\* current value of 0, whenever no price went into the total: when the
\* holdings are empty, and when every fetch of non-empty holdings raised,
\* whatever the baseline and the threshold of the alert.
C27_NoPriceNoTrigger ==
    ev.state \in {"running", "done"} =>
        \A i \in 1..Len(ev.results) :
            LET a == ev.alerts[i]
                r == ev.results[i]
                q == ev.outcomes[i].quotes
            IN  (/\ a.alert_type = PyEnum("portfolio_value")
                 /\ \A j \in 1..Len(q) : ~q[j].ok) =>
                    /\ ~r.triggered
                    /\ r.current_value = Fmt2(0)
                    /\ r.error = PyNone

\* the positions inside _save_alerts and right after it
InSave(t) == pc[t] \in {"s_mkstemp", "s_write", "s_replace", "s_done"}

\* the durable file holds exactly the in-memory mapping
FileIsMemory ==
    IF file.exists
    THEN file.kind = "json" /\ file.doc = JsonDump(alerts)
    ELSE alerts = EmptyMap

\* C25: a thread inside _save_alerts holds the lock; the mapping does not
\* change between the moment it wrote its temporary file and its rename,
\* so the file it renames into place is the dump of the mapping as it is;
\* the durable file changes only by the rename of the lock holder; and
\* with every thread idle and no persistence step failed since the store
\* was built, the durable file is the dump of the in-memory mapping, so
\* every alert of the mapping is in the file.
C25_PersistUnderLock ==
    /\ [](\A t \in Threads : InSave(t) => lock = t)
    /\ [](\A t \in Threads :
             pc[t] = "s_replace" =>
                 tmp[t] = [state |-> "complete", doc |-> JsonDump(alerts)])
    /\ [][file' # file =>
             \E t \in Threads : /\ lock = t
                                /\ SaveReplace(t)
                                /\ alerts' = alerts
                                /\ file'.doc = JsonDump(alerts)]_vars
    /\ []((AllIdle /\ ~ioFailed) => FileIsMemory)

\* a create for one owner has persisted under the lock while a create of
\* the other thread waits for the lock: the file holds the alerts of both
\* owners
C25_Witness ==
    \E t, u \in Threads :
        /\ pc[t] = "s_done"
        /\ call[t].op = "create"
        /\ pc[u] = "c_lock"
        /\ lock = t
        /\ DOMAIN alerts = Owners
        /\ \A o \in Owners : Len(alerts[o]) = 1
        /\ FileIsMemory

\* the kinds of result with which create_alert raises
CreateErrors == {"QuotaExceeded", "KeyError", "ValidationError", "IOError"}

\* C26: when a create_alert call ends with an exception, whatever the
\* exception, the alert dict of that call is in no collection of the store
\* and in no collection of the durable file, so the owner's collection is
\* what it was before the call.
C26_CreateAllOrNothing ==
    [][\A t \in SeqThreads :
          (/\ call[t].op = "create"
           /\ pc[t] # "idle"
           /\ pc'[t] = "idle"
           /\ ret'.kind \in CreateErrors) =>
              LET u == call[t].user_id
                  id == call[t].alert_dict.id
              IN  /\ id \notin IdsOf(alerts', u)
                  /\ id \notin IdsOf(_load_alerts(file'), u)]_vars

\* the members of AlertType, as an Alert holds them
KnownTypes == {PyEnum(k) : k \in EnumValues("alert_type")}

\* C23: a batch over a collection that holds a dict whose alert_type is no
\* member of AlertType starts, lists every stored alert and does not end
\* with an exception; the result of such an alert has the error "Unknown
\* alert type" and triggered = false, and the batch returns one result per
\* alert it listed.
C23_UnknownKindIsAResult ==
    /\ [][\A u \in RawOwners :
             CheckStart(u, NoHoldings) =>
                 /\ ret'.kind # "ValidationError"
                 /\ ev'.state = "running"
                 /\ Len(ev'.alerts) = CountOf(u)]_vars
    /\ [](ev.state \in {"running", "done"} =>
             \A i \in 1..Len(ev.results) :
                 ev.alerts[i].alert_type \notin KnownTypes =>
                     /\ ev.results[i].error = PyStr("Unknown alert type")
                     /\ ~ev.results[i].triggered)
    /\ [][CheckReturn => Len(ret'.results) = Len(ev.alerts)]_vars

\* C24: the task of a batch never holds the lock once its list call has
\* returned; while a batch is running a caller waiting for the lock can
\* take it and a delete can start; the alerts a running batch works on are
\* the list it took when it started, whatever creates and deletes complete
\* meanwhile; and the batch returns one result per alert of that list, in
\* its order, whether or not the alert is still stored.
C24_LockOnlyForTheList ==
    /\ [](lock # BatchTask)
    /\ [](\A t \in SeqThreads :
             (ev.state = "running" /\ ret = NoResult) =>
                 /\ pc[t] = "c_lock" => ENABLED CreateAcquire(t)
                 /\ pc[t] = "idle" => ENABLED DeleteCall(t, "A", 1))
    /\ [][\A u \in RawOwners :
             (CheckStart(u, NoHoldings) /\ ev'.state = "running") =>
                 ev'.alerts = ListOf(alerts, u)]_vars
    /\ [][(ev.state = "running" /\ ev'.state # "idle") =>
             /\ ev'.alerts = ev.alerts
             /\ ev'.user_id = ev.user_id]_vars
    /\ [][CheckReturn =>
             /\ Len(ret'.results) = Len(ev.alerts)
             /\ \A i \in 1..Len(ev.alerts) :
                   ret'.results[i].alert = _alert_to_summary(ev.alerts[i])]_vars

\* a batch returned the result of the alert it listed at its start, which
\* was deleted while the batch ran; the alert created meanwhile is in the
\* store and not in the results
C24_Witness ==
    /\ ret.kind = "Checked"
    /\ Len(ret.results) = 1
    /\ ret.results[1].alert.id = 1
    /\ ret.results[1].error = PyNone
    /\ IdsOf(alerts, ret.user_id) = {2}
    /\ IdsOf(_load_alerts(file), ret.user_id) = {2}

====
